---- MODULE Spec2Model ----
(***************************************************************************)
(* Campaign lifecycle scheduler and creative targeting resolver of the     *)
(* SCM Ads API.                                                            *)
(*                                                                         *)
(* Instants are whole minutes since 1970-01-01T00:00Z.  A civil date is a  *)
(* day number since 1970-01-01 in some timezone; a time of day is a minute *)
(* number 0..1439.  Text (time slots, device names, weekday names) is a    *)
(* sequence of one-character strings so that trimming, lower-casing,       *)
(* splitting and parsing are computed rather than assumed.                 *)
(***************************************************************************)
EXTENDS Integers, Sequences, FiniteSets, TLC

VARIABLES
    clock,      \* wall clock (time.Now()), minutes since the epoch
    cancelled,  \* jobsCtx has been cancelled (cancelJobs())
    tzName,     \* timezone name the loops pass to the store (after fallback)
    campaigns,  \* campaigns table: id -> row
    pc,         \* position of each scheduler goroutine
    runAt,      \* each goroutine's own next fire instant
    last,       \* record of the step just taken (what the loop logs)
    config,     \* status names and fire times read from the environment
    call,       \* the store call each goroutine has in flight, if any
    creatives,  \* creatives table: id -> row
    resp,       \* response of the last device listing request
    edit        \* the UpdateCampaign request in flight, if any

vars == <<clock, cancelled, tzName, campaigns, pc, runAt, last, config, call,
          creatives, resp, edit>>

schedVars == <<clock, cancelled, tzName, campaigns, pc, runAt, last, config, call>>
resolverVars == <<creatives, resp>>
crudVars == <<edit>>

(***************************************************************************)
(* Time                                                                    *)
(***************************************************************************)
MinutesPerDay == 1440

\* Horizon of the wall clock and the coarse step by which it advances when
\* no timer is due earlier.
MaxClock == 4320
ClockStep == 720

\* Timezone database: the zones used here.  A name that is not in the
\* database does not resolve.
ZoneNames == {"UTC", "Asia/Kolkata", "America/Bogota", "America/New_York"}

\* Daylight saving time of America/New_York in 1970: from 1970-04-26
\* 02:00 EST (07:00Z) to 1970-10-25 02:00 EDT (06:00Z).
NewYorkDSTBegin == 115 * MinutesPerDay + 420
NewYorkDSTEnd == 297 * MinutesPerDay + 360

\* The period of zone tz (between two changes of its offset) that holds
\* instant t.
ZonePeriod(tz, t) ==
    IF tz = "America/New_York"
    THEN IF t < NewYorkDSTBegin THEN 0 ELSE IF t < NewYorkDSTEnd THEN 1 ELSE 2
    ELSE 0

\* UTC offset in minutes of zone tz at instant t.
ZoneOffset(tz, t) ==
    CASE tz = "UTC" -> 0
      [] tz = "Asia/Kolkata" -> 330
      [] tz = "America/Bogota" -> 0 - 300
      [] tz = "America/New_York" ->
            IF ZonePeriod(tz, t) = 1 THEN 0 - 240 ELSE 0 - 300

\* now.In(loc) followed by Year/Month/Day, and DATE(x AT TIME ZONE tz):
\* the civil date of instant t in zone tz.
CivilDate(t, tz) == (t + ZoneOffset(tz, t)) \div MinutesPerDay

\* time.Date(y, m, d, hour, minute, 0, 0, loc): the instant of a civil
\* date and time of day in zone tz.  The offset is looked up at the local
\* time read as UTC, and looked up again at the result when that falls
\* into another period of the zone.
DateAt(day, tod, tz) ==
    LET unix == day * MinutesPerDay + tod
        first == ZoneOffset(tz, unix)
        utc == unix - first
        offset == IF ZonePeriod(tz, utc) # ZonePeriod(tz, unix)
                  THEN ZoneOffset(tz, utc) ELSE first
    IN  unix - offset

(***************************************************************************)
(* Configuration (environment, read once when the loops are started)       *)
(***************************************************************************)
EnvTZ == {"UTC", "Asia/Kolkata", "America/Bogota", "Mars/Phobos"}

\* time.LoadLocation with the fallback to UTC on error.
LoadLocationOrUTC(name) == IF name \in ZoneNames THEN name ELSE "UTC"

\* getEnv(key, defaultValue): the default when the variable is unset or
\* blank.
BlankStrings == {"", " "}
getEnv(value, defaultValue) ==
    IF value \in BlankStrings THEN defaultValue ELSE value

\* CAMPAIGN_SCHEDULED_STATUS, CAMPAIGN_ACTIVE_STATUS and
\* CAMPAIGN_COMPLETED_STATUS as the loops read them.
StatusConfig(envScheduled, envActive, envCompleted) ==
    [scheduledStatus |-> getEnv(envScheduled, "scheduled"),
     activeStatus |-> getEnv(envActive, "active"),
     completedStatus |-> getEnv(envCompleted, "completed")]

scheduledStatus == config.scheduledStatus
activeStatus == config.activeStatus
completedStatus == config.completedStatus

\* Default fire time of day in minutes (hour * 60 + minute) of each loop:
\* parseHHMM(hhmm, 0, 1) and parseHHMM(hhmm, 0, 2).
ActivatorFireTime == 1
CompleterFireTime == 2

Loops == {"activator", "completer"}

DefaultFireTimes ==
    [l \in Loops |->
        IF l = "activator" THEN ActivatorFireTime ELSE CompleterFireTime]

\* What the loops hold with nothing set in the environment.
DefaultConfig == StatusConfig("", "", "") @@ [fireTime |-> DefaultFireTimes]

\* hour, minute of loop l.
FireTime(l) == config.fireTime[l]

(***************************************************************************)
(* nextRunAt                                                               *)
(***************************************************************************)
nextRunAt(now, tz, fireTime) ==
    LET run == DateAt(CivilDate(now, tz), fireTime, tz)
    IN  IF ~(run > now) THEN run + MinutesPerDay ELSE run

(***************************************************************************)
(* Campaign store                                                          *)
(***************************************************************************)
CampaignIds == {"c1", "c2"}

Statuses == {"draft", "scheduled", "active", "paused", "completed"}

StartDates == {1440, 2640}
EndDates == {2700, 2880}

\* Rows that creation admits: end_date after start_date (gtfield=StartDate).
CampaignRows ==
    {r \in [status : Statuses, start_date : StartDates, end_date : EndDates] :
        r.end_date > r.start_date}

\* Variant: the dates are compared in UTC, not in the configured timezone.
ActivateMatches_UTC(row, startDate, status, timeZone) ==
    /\ row.status = status
    /\ CivilDate(row.start_date, "UTC") = CivilDate(startDate, "UTC")

\* Variant: the status condition is missing.
ActivateMatches_NoStatus(row, startDate, status, timeZone) ==
    CivilDate(row.start_date, timeZone) = CivilDate(startDate, timeZone)

\* Variant: every campaign that started on or before today is taken.
ActivateMatches_OnOrBefore(row, startDate, status, timeZone) ==
    /\ row.status = status
    /\ CivilDate(row.start_date, timeZone) <= CivilDate(startDate, timeZone)

\* Variant: rows that are already active are taken again.
ActivateMatches_Always(row, startDate, status, timeZone) ==
    CivilDate(row.start_date, timeZone) = CivilDate(startDate, timeZone)
        /\ row.status \in {status, "active"}

\* WHERE clause of ActivateScheduledStartingOn.
ActivateMatches(row, startDate, status, timeZone) ==
    /\ row.status = status
    /\ CivilDate(row.start_date, timeZone) = CivilDate(startDate, timeZone)

\* Variant: the rows are read and then written one by one, and the statement
\* stops after the first.
ActivateScheduledStartingOn_RowByRow(table, startDate, status, timeZone) ==
    LET hit == {id \in DOMAIN table :
                    ActivateMatches(table[id], startDate, status, timeZone)}
        first == IF hit = {} THEN {} ELSE {CHOOSE id \in hit : TRUE}
    IN  [id \in DOMAIN table |->
            IF id \in first
            THEN [table[id] EXCEPT !.status = "active"]
            ELSE table[id]]

\* UPDATE campaigns SET status = 'active' WHERE ...  (updated_at, which no
\* predicate reads, is not part of the modelled row.)
ActivateScheduledStartingOn(table, startDate, status, timeZone) ==
    LET st == IF status = "" THEN "scheduled" ELSE status
        tz == IF timeZone = "" THEN "UTC" ELSE timeZone
    IN  [id \in DOMAIN table |->
            IF ActivateMatches(table[id], startDate, st, tz)
            THEN [table[id] EXCEPT !.status = "active"]
            ELSE table[id]]

\* Variant: the rows under the scheduled status are counted, whatever their
\* start_date.
ActivateRowsAffected_AllScheduled(table, startDate, status, timeZone) ==
    Cardinality({id \in DOMAIN table : table[id].status = status})

\* RowsAffected of the same statement.
ActivateRowsAffected(table, startDate, status, timeZone) ==
    LET st == IF status = "" THEN "scheduled" ELSE status
        tz == IF timeZone = "" THEN "UTC" ELSE timeZone
    IN  Cardinality({id \in DOMAIN table :
                        ActivateMatches(table[id], startDate, st, tz)})

\* Predicate of the Complete transition: status is the active status and the
\* civil date of end_date is strictly before the civil date of now.
CompleteMatches(row, now, active, timeZone) ==
    /\ row.status = active
    /\ CivilDate(row.end_date, timeZone) < CivilDate(now, timeZone)

CompleteActiveEndedBefore(table, now, active, completed, timeZone) ==
    [id \in DOMAIN table |->
        IF CompleteMatches(table[id], now, active, timeZone)
        THEN [table[id] EXCEPT !.status = completed]
        ELSE table[id]]

CompleteRowsAffected(table, now, active, timeZone) ==
    Cardinality({id \in DOMAIN table :
                    CompleteMatches(table[id], now, active, timeZone)})

(***************************************************************************)
(* Scheduler loops                                                         *)
(***************************************************************************)
NoStep == [op |-> "none"]

\* The locals of one loop iteration around its store call: whether the
\* statement is with the store, whether the store has committed it, the
\* instant passed as now, and the rows and err the call returned.
NoCall == [sent |-> FALSE, committed |-> FALSE, now |-> 0, rows |-> 0,
           err |-> ""]
NoCalls == [l \in Loops |-> NoCall]

\* No UpdateCampaign request is between its read and its write.
NoEdit == [id |-> "none"]

\* for { now := time.Now(); runAt := nextRunAt(now, loc, hour, minute) ...
LoopCompute(l) ==
    /\ pc[l] = "loop"
    /\ runAt' = [runAt EXCEPT ![l] = nextRunAt(clock, tzName, FireTime(l))]
    /\ pc' = [pc EXCEPT ![l] = "wait"]
    /\ call' = [call EXCEPT ![l] = NoCall]
    /\ last' = NoStep
    /\ UNCHANGED <<clock, cancelled, tzName, campaigns, config,
                   resolverVars, crudVars>>

\* select { case <-t.C: }
LoopTimer(l) ==
    /\ pc[l] = "wait"
    /\ clock >= runAt[l]
    /\ pc' = [pc EXCEPT ![l] = "run"]
    /\ last' = NoStep
    /\ UNCHANGED <<clock, cancelled, tzName, campaigns, runAt, config, call,
                   resolverVars, crudVars>>

\* select { case <-ctx.Done(): t.Stop(); return }
LoopStop(l) ==
    /\ pc[l] = "wait"
    /\ cancelled
    /\ pc' = [pc EXCEPT ![l] = "done"]
    /\ last' = NoStep
    /\ UNCHANGED <<clock, cancelled, tzName, campaigns, runAt, config, call,
                   resolverVars, crudVars>>

\* rows, err := campaignRepo.ActivateScheduledStartingOn(runCtx, time.Now(),
\* scheduledStatus, tzName).  The statement either commits as a whole or
\* fails as a whole (store error, timeout, cancelled context).
ActivateTick ==
    /\ pc["activator"] = "run"
    /\ pc' = [pc EXCEPT !["activator"] = "loop"]
    /\ \/ /\ ~cancelled
          /\ campaigns' = ActivateScheduledStartingOn(campaigns, clock,
                                scheduledStatus, tzName)
          /\ last' = [op |-> "activate", ok |-> TRUE, now |-> clock,
                      rows |-> ActivateRowsAffected(campaigns, clock,
                                    scheduledStatus, tzName),
                      before |-> campaigns]
       \/ /\ campaigns' = campaigns
          /\ last' = [op |-> "activate", ok |-> FALSE, now |-> clock,
                      rows |-> 0, before |-> campaigns]
    /\ UNCHANGED <<clock, cancelled, tzName, runAt, config, call,
                   resolverVars, crudVars>>

\* Variant: the loop passes UTC instead of the configured timezone.
CompleteTick_UTC ==
    /\ pc["completer"] = "run"
    /\ pc' = [pc EXCEPT !["completer"] = "loop"]
    /\ \/ /\ ~cancelled
          /\ campaigns' = CompleteActiveEndedBefore(campaigns, clock,
                                activeStatus, completedStatus, "UTC")
          /\ last' = [op |-> "complete", ok |-> TRUE, now |-> clock,
                      rows |-> CompleteRowsAffected(campaigns, clock,
                                    activeStatus, "UTC"),
                      before |-> campaigns]
       \/ /\ campaigns' = campaigns
          /\ last' = [op |-> "complete", ok |-> FALSE, now |-> clock,
                      rows |-> 0, before |-> campaigns]
    /\ UNCHANGED <<clock, cancelled, tzName, runAt, config, call,
                   resolverVars, crudVars>>

\* rows, err := campaignRepo.CompleteActiveEndedBefore(runCtx, time.Now(),
\* activeStatus, completedStatus, tzName)
CompleteTick ==
    /\ pc["completer"] = "run"
    /\ pc' = [pc EXCEPT !["completer"] = "loop"]
    /\ \/ /\ ~cancelled
          /\ campaigns' = CompleteActiveEndedBefore(campaigns, clock,
                                activeStatus, completedStatus, tzName)
          /\ last' = [op |-> "complete", ok |-> TRUE, now |-> clock,
                      rows |-> CompleteRowsAffected(campaigns, clock,
                                    activeStatus, tzName),
                      before |-> campaigns]
       \/ /\ campaigns' = campaigns
          /\ last' = [op |-> "complete", ok |-> FALSE, now |-> clock,
                      rows |-> 0, before |-> campaigns]
    /\ UNCHANGED <<clock, cancelled, tzName, runAt, config, call,
                   resolverVars, crudVars>>

\* cancelJobs() on SIGINT/SIGTERM.
CancelJobs ==
    /\ ~cancelled
    /\ cancelled' = TRUE
    /\ last' = NoStep
    /\ UNCHANGED <<clock, tzName, campaigns, pc, runAt, config, call,
                   resolverVars, crudVars>>

\* Time passes: to the next timer that is due, or by one coarse step.
Min(S) == CHOOSE x \in S : \A y \in S : x <= y

NextClock ==
    Min({((clock \div ClockStep) + 1) * ClockStep}
        \cup {runAt[l] : l \in {k \in Loops : pc[k] = "wait" /\ runAt[k] > clock}})

Tick ==
    /\ NextClock <= MaxClock
    /\ clock' = NextClock
    /\ last' = NoStep
    /\ UNCHANGED <<cancelled, tzName, campaigns, pc, runAt, config, call,
                   resolverVars, crudVars>>

NoCreatives == <<>>
NoResponse == [op |-> "none"]


Init ==
    /\ clock = 0
    /\ cancelled = FALSE
    /\ tzName \in {LoadLocationOrUTC(e) : e \in EnvTZ}
    /\ campaigns \in [CampaignIds -> CampaignRows]
    /\ pc = [l \in Loops |-> "loop"]
    /\ runAt = [l \in Loops |-> 0]
    /\ last = NoStep
    /\ config = DefaultConfig
    /\ call = NoCalls
    /\ edit = NoEdit
    /\ creatives = NoCreatives
    /\ resp = NoResponse

Next ==
    \/ \E l \in Loops : LoopCompute(l)
    \/ \E l \in Loops : LoopTimer(l)
    \/ \E l \in Loops : LoopStop(l)
    \/ ActivateTick
    \/ CompleteTick
    \/ CancelJobs
    \/ Tick

Spec == Init /\ [][Next]_vars

(***************************************************************************)
(* The loops with the store call taken apart                               *)
(*                                                                         *)
(* The same two goroutines, with the call to the store split into the      *)
(* steps that cancellation and the timeout can fall between: the statement *)
(* is submitted, the store commits it, the call returns.  The clock runs   *)
(* over the end of daylight saving time in America/New_York.               *)
(***************************************************************************)
\* Midnight UTC of the day on which daylight saving time ends.
LoopStart == (NewYorkDSTEnd \div MinutesPerDay) * MinutesPerDay

\* How long after LoopStart the clock runs.
LoopHorizon == 1800

LoopEnd == LoopStart + LoopHorizon

\* context.WithTimeout(ctx, 30*time.Second): less than one minute of the
\* clock.  The deadline can pass without the clock showing it, and it has
\* passed once the clock is more than a minute on.
CallTimeout == 1

Deadline(l) == call[l].now + CallTimeout

\* Variant: the activator's statement also completes what it has activated.
Statement_BothInOnePass(l, table, now) ==
    IF l = "activator"
    THEN CompleteActiveEndedBefore(
             ActivateScheduledStartingOn(table, now, scheduledStatus, tzName),
             now, activeStatus, completedStatus, tzName)
    ELSE CompleteActiveEndedBefore(table, now, activeStatus, completedStatus,
                                   tzName)

\* Variant: the completer's statement takes only the campaigns that ended
\* yesterday.
Statement_NoCatchUp(l, table, now) ==
    IF l = "activator"
    THEN ActivateScheduledStartingOn(table, now, scheduledStatus, tzName)
    ELSE [id \in DOMAIN table |->
            IF /\ table[id].status = activeStatus
               /\ CivilDate(table[id].end_date, tzName) =
                     CivilDate(now, tzName) - 1
            THEN [table[id] EXCEPT !.status = completedStatus]
            ELSE table[id]]

\* The statement each loop submits.
Statement(l, table, now) ==
    IF l = "activator"
    THEN ActivateScheduledStartingOn(table, now, scheduledStatus, tzName)
    ELSE CompleteActiveEndedBefore(table, now, activeStatus, completedStatus,
                                   tzName)

StatementRows(l, table, now) ==
    IF l = "activator"
    THEN ActivateRowsAffected(table, now, scheduledStatus, tzName)
    ELSE CompleteRowsAffected(table, now, activeStatus, tzName)

\* Variant: the statement is sent without looking at the context.
CallSubmit_Unchecked(l) ==
    /\ pc[l] = "run"
    /\ pc' = [pc EXCEPT ![l] = "call"]
    /\ call' = [call EXCEPT ![l] =
                    [NoCall EXCEPT !.sent = TRUE, !.now = clock]]
    /\ last' = NoStep
    /\ UNCHANGED <<clock, cancelled, tzName, campaigns, runAt, config,
                   resolverVars, crudVars>>

\* runCtx, cancel := context.WithTimeout(ctx, 30*time.Second)
\* rows, err := campaignRepo.X(runCtx, time.Now(), ...)
\* A context that is already cancelled makes the call return its error
\* before anything is sent.
CallSubmit(l) ==
    /\ pc[l] = "run"
    /\ IF cancelled
       THEN /\ pc' = [pc EXCEPT ![l] = "loop"]
            /\ call' = [call EXCEPT ![l] =
                            [NoCall EXCEPT !.now = clock,
                                           !.err = "context canceled"]]
            /\ last' = NoStep
       ELSE /\ pc' = [pc EXCEPT ![l] = "call"]
            /\ call' = [call EXCEPT ![l] =
                            [NoCall EXCEPT !.sent = TRUE, !.now = clock]]
            /\ last' = NoStep
    /\ UNCHANGED <<clock, cancelled, tzName, campaigns, runAt, config,
                   resolverVars, crudVars>>

\* The store executes the statement: one UPDATE, applied as a whole.
CallCommit(l) ==
    /\ pc[l] = "call"
    /\ ~call[l].committed
    /\ clock <= Deadline(l)
    /\ campaigns' = Statement(l, campaigns, call[l].now)
    /\ call' = [call EXCEPT ![l].committed = TRUE,
                            ![l].rows = StatementRows(l, campaigns,
                                                      call[l].now)]
    /\ last' = NoStep
    /\ UNCHANGED <<clock, cancelled, tzName, pc, runAt, config,
                   resolverVars, crudVars>>

\* The call returns rows and a nil error; cancel(); the loop goes round.
CallReturn(l) ==
    /\ pc[l] = "call"
    /\ call[l].committed
    /\ pc' = [pc EXCEPT ![l] = "loop"]
    /\ call' = [call EXCEPT ![l].sent = FALSE]
    /\ last' = NoStep
    /\ UNCHANGED <<clock, cancelled, tzName, campaigns, runAt, config,
                   resolverVars, crudVars>>

Errors == {"store error", "context deadline exceeded", "context canceled"}

\* Variant: on the error of a call the goroutine returns.
CallAbort_Return(l, err) ==
    /\ pc[l] = "call"
    /\ \/ err = "store error" /\ ~call[l].committed
       \/ err = "context deadline exceeded"
       \/ err = "context canceled" /\ cancelled
    /\ pc' = [pc EXCEPT ![l] = "done"]
    /\ call' = [call EXCEPT ![l].sent = FALSE, ![l].committed = FALSE,
                            ![l].rows = 0, ![l].err = err]
    /\ last' = NoStep
    /\ UNCHANGED <<clock, cancelled, tzName, campaigns, runAt, config,
                   resolverVars, crudVars>>

\* The call returns an error: the store failed the statement, the 30 s of
\* runCtx ran out, or runCtx was cancelled along with its parent jobsCtx.
\* The loop logs it and continues.
CallAbort(l, err) ==
    /\ pc[l] = "call"
    /\ \/ err = "store error" /\ ~call[l].committed
       \/ err = "context deadline exceeded"
       \/ err = "context canceled" /\ cancelled
    /\ pc' = [pc EXCEPT ![l] = "loop"]
    /\ call' = [call EXCEPT ![l].sent = FALSE, ![l].committed = FALSE,
                            ![l].rows = 0, ![l].err = err]
    /\ last' = NoStep
    /\ UNCHANGED <<clock, cancelled, tzName, campaigns, runAt, config,
                   resolverVars, crudVars>>

\* Time passes, as in Tick, up to the horizon.
LoopTick ==
    /\ NextClock <= LoopEnd
    /\ clock' = NextClock
    /\ last' = NoStep
    /\ UNCHANGED <<cancelled, tzName, campaigns, pc, runAt, config, call,
                   resolverVars, crudVars>>

\* Campaigns around the day the clock starts on.  UpdateCampaign checks
\* end_date against start_date only when the request carries both, so a row
\* whose end_date lies before its start_date can be in the table.
LoopRows ==
    {[status |-> "scheduled", start_date |-> LoopStart + 720,
      end_date |-> LoopStart - 720],
     [status |-> "scheduled", start_date |-> LoopStart + 720,
      end_date |-> LoopStart + 2 * MinutesPerDay + 720],
     [status |-> "active", start_date |-> LoopStart - MinutesPerDay,
      end_date |-> LoopStart - 720],
     [status |-> "paused", start_date |-> LoopStart + 720,
      end_date |-> LoopStart + 2 * MinutesPerDay + 720],
     [status |-> "scheduled", start_date |-> LoopStart + MinutesPerDay + 720,
      end_date |-> LoopStart + 2 * MinutesPerDay + 720]}

LoopZones == {"UTC", "America/New_York"}

LoopInit ==
    /\ clock = LoopStart
    /\ cancelled = FALSE
    /\ tzName \in LoopZones
    /\ campaigns \in [CampaignIds -> LoopRows]
    /\ pc = [l \in Loops |-> "loop"]
    /\ runAt = [l \in Loops |-> 0]
    /\ last = NoStep
    /\ config = DefaultConfig
    /\ call = NoCalls
    /\ edit = NoEdit
    /\ creatives = NoCreatives
    /\ resp = NoResponse

LoopNext ==
    \/ \E l \in Loops : LoopCompute(l)
    \/ \E l \in Loops : LoopTimer(l)
    \/ \E l \in Loops : LoopStop(l)
    \/ \E l \in Loops : CallSubmit(l)
    \/ \E l \in Loops : CallCommit(l)
    \/ \E l \in Loops : CallReturn(l)
    \/ \E l \in Loops, err \in Errors : CallAbort(l, err)
    \/ CancelJobs
    \/ LoopTick

LoopSpec == LoopInit /\ [][LoopNext]_vars

\* The goroutines and the store keep running, the clock keeps going up to
\* the horizon, and a select with both of its cases ready takes each of them
\* sooner or later.
LoopFairness ==
    /\ \A l \in Loops :
        /\ WF_vars(LoopCompute(l))
        /\ WF_vars(LoopTimer(l))
        /\ SF_vars(LoopStop(l))
        /\ WF_vars(CallSubmit(l))
        /\ WF_vars(CallCommit(l) \/ CallReturn(l)
                    \/ \E err \in Errors : CallAbort(l, err))
    /\ WF_vars(LoopTick)

\* Whether the loops go on does not depend on what the table holds: the
\* fair behaviours are checked from the tables whose rows are alike.
LoopFairInit ==
    /\ LoopInit
    /\ campaigns["c1"] = campaigns["c2"]

LoopFairSpec == LoopFairInit /\ [][LoopNext]_vars /\ LoopFairness

(***************************************************************************)
(* Text                                                                    *)
(***************************************************************************)
UpperCase == <<"A", "B", "C", "D", "E", "F", "G", "H", "I", "J", "K", "L", "M",
               "N", "O", "P", "Q", "R", "S", "T", "U", "V", "W", "X", "Y", "Z">>
LowerCase == <<"a", "b", "c", "d", "e", "f", "g", "h", "i", "j", "k", "l", "m",
               "n", "o", "p", "q", "r", "s", "t", "u", "v", "w", "x", "y", "z">>
Digits == <<"0", "1", "2", "3", "4", "5", "6", "7", "8", "9">>

ToLower(ch) ==
    IF \E i \in DOMAIN UpperCase : UpperCase[i] = ch
    THEN LowerCase[CHOOSE i \in DOMAIN UpperCase : UpperCase[i] = ch]
    ELSE ch

\* SQL lower(s)
lower(s) == [i \in 1..Len(s) |-> ToLower(s[i])]

RECURSIVE TrimLeft(_)
TrimLeft(s) == IF s # <<>> /\ Head(s) = " " THEN TrimLeft(Tail(s)) ELSE s

RECURSIVE TrimRight(_)
TrimRight(s) ==
    IF s # <<>> /\ s[Len(s)] = " " THEN TrimRight(SubSeq(s, 1, Len(s) - 1)) ELSE s

\* SQL trim(s): spaces are removed from both ends.
trim(s) == TrimRight(TrimLeft(s))

\* SQL position(ch in s): index of the first occurrence, 0 when absent.
position(ch, s) ==
    IF \E i \in 1..Len(s) : s[i] = ch
    THEN CHOOSE i \in 1..Len(s) : s[i] = ch /\ \A j \in 1..(i - 1) : s[j] # ch
    ELSE 0

RECURSIVE SplitFields(_, _)
SplitFields(s, d) ==
    LET p == position(d, s)
    IN  IF p = 0 THEN <<s>>
        ELSE <<SubSeq(s, 1, p - 1)>> \o SplitFields(SubSeq(s, p + 1, Len(s)), d)

\* SQL split_part(s, d, n): the n-th field, empty when there is none.
split_part(s, d, n) ==
    LET f == SplitFields(s, d) IN IF n <= Len(f) THEN f[n] ELSE <<>>

IsDigit(ch) == \E i \in DOMAIN Digits : Digits[i] = ch
DigitVal(ch) == (CHOOSE i \in DOMAIN Digits : Digits[i] = ch) - 1

RECURSIVE Number(_)
Number(s) == IF s = <<>> THEN 0
             ELSE 10 * Number(SubSeq(s, 1, Len(s) - 1)) + DigitVal(s[Len(s)])

BadTime == 0 - 1

\* SQL s::time for the spellings used here: optional surrounding spaces,
\* H:MM or HH:MM with 00:00..23:59, or 24:00.  Anything else raises
\* "invalid input syntax for type time" (BadTime).
ParseTime(s) ==
    LET f == SplitFields(trim(s), ":")
    IN  IF /\ Len(f) = 2
           /\ Len(f[1]) \in {1, 2}
           /\ Len(f[2]) = 2
           /\ \A i \in 1..Len(f[1]) : IsDigit(f[1][i])
           /\ \A i \in 1..Len(f[2]) : IsDigit(f[2][i])
        THEN LET h == Number(f[1])
                 m == Number(f[2])
             IN  IF (h <= 23 /\ m <= 59) \/ (h = 24 /\ m = 0)
                 THEN h * 60 + m
                 ELSE BadTime
        ELSE BadTime

\* now.Format("15:04")
FormatHHMM(now) ==
    LET tod == now % MinutesPerDay
        h == tod \div 60
        m == tod % 60
    IN  <<Digits[(h \div 10) + 1], Digits[(h % 10) + 1], ":",
          Digits[(m \div 10) + 1], Digits[(m % 10) + 1]>>

WeekdayNames ==
    <<<<"S", "u", "n", "d", "a", "y">>,
      <<"M", "o", "n", "d", "a", "y">>,
      <<"T", "u", "e", "s", "d", "a", "y">>,
      <<"W", "e", "d", "n", "e", "s", "d", "a", "y">>,
      <<"T", "h", "u", "r", "s", "d", "a", "y">>,
      <<"F", "r", "i", "d", "a", "y">>,
      <<"S", "a", "t", "u", "r", "d", "a", "y">>>>

\* now.Weekday().String() of a UTC instant; 1970-01-01 was a Thursday.
WeekdayString(now) == WeekdayNames[(((now \div MinutesPerDay) + 4) % 7) + 1]

(***************************************************************************)
(* Creative store and the device queries                                   *)
(***************************************************************************)
CreativeIds == {"k1", "k2"}

Kiosk1 == <<"k", "i", "o", "s", "k", "-", "1">>
LobbyAPadded == <<" ", "L", "o", "b", "b", "y", "-", "A", " ">>
LobbyALower == <<"l", "o", "b", "b", "y", "-", "a">>
LobbyAUpper == <<"L", "O", "B", "B", "Y", "-", "A">>

Monday == WeekdayNames[2]
Tuesday == WeekdayNames[3]

Slot0900_1700 == <<"0", "9", ":", "0", "0", "-", "1", "7", ":", "0", "0">>
Slot0800_1000 == <<"0", "8", ":", "0", "0", "-", "1", "0", ":", "0", "0">>
Slot2200_0200 == <<"2", "2", ":", "0", "0", "-", "0", "2", ":", "0", "0">>
SlotBadBoth == <<"x", "x", "-", "y", "y">>
SlotBadEnd == <<"1", "2", ":", "0", "0", "-", "z", "z">>
SlotLabelTime == <<"0", "9", ":", "0", "0">>
SlotLabelName == <<"A", "l", "l", " ", "D", "a", "y">>
SlotLabelPadded == <<" ", "0", "9", ":", "0", "0", " ">>

DeviceLists == {<<Kiosk1>>, <<LobbyAPadded, Kiosk1>>, <<>>}
DayLists == {<<Monday>>, <<>>}
SlotLists ==
    {<<Slot0900_1700>>, <<Slot0800_1000>>, <<Slot2200_0200>>,
     <<SlotBadBoth, Slot0800_1000>>, <<Slot0800_1000, SlotBadBoth>>,
     <<SlotBadEnd>>, <<SlotLabelTime>>, <<SlotLabelName>>,
     <<SlotLabelPadded>>, <<>>}

\* Rows of the store: a creative targeted at kiosk-1 on Mondays with any of
\* the slot lists, or any targeting with a plain or a malformed slot list.
CreativeRows ==
    {r \in [devices : DeviceLists, selected_days : DayLists,
            time_slots : SlotLists] :
        \/ r.devices = <<Kiosk1>> /\ r.selected_days = <<Monday>>
        \/ r.time_slots \in {<<Slot0800_1000>>, <<SlotBadBoth, Slot0800_1000>>}}

\* uploaded_at of each creative (distinct).
UploadedAt(id) == IF id = "k1" THEN 1 ELSE 2

\* Instants at which requests arrive: a Monday (1970-01-05) at several times
\* of day and the Tuesday after it at 09:00.
MondayStart == 4 * MinutesPerDay
TimesOfDay == {15, 120, 121, 539, 540, 720, 1020, 1021, 1410}
RequestInstants == {MondayStart + t : t \in TimesOfDay} \cup {MondayStart + 1440 + 540}

Bool3(b) == IF b THEN "true" ELSE "false"

\* Variant: a slot without separator is taken as the start of a window.
SlotEval_LabelAsStart(ts, tm) ==
    IF position("-", ts) > 0
    THEN LET t == ParseTime(tm)
             a == ParseTime(split_part(ts, "-", 1))
             b == ParseTime(split_part(ts, "-", 2))
         IN  IF a = BadTime THEN "error"
             ELSE IF ~(t >= a) THEN "false"
             ELSE IF b = BadTime THEN "error"
             ELSE Bool3(t <= b)
    ELSE Bool3(ParseTime(tm) >= ParseTime(ts))

\* Variant: the end of the window is exclusive.
SlotEval_EndExclusive(ts, tm) ==
    IF position("-", ts) > 0
    THEN LET t == ParseTime(tm)
             a == ParseTime(split_part(ts, "-", 1))
             b == ParseTime(split_part(ts, "-", 2))
         IN  IF a = BadTime THEN "error"
             ELSE IF ~(t >= a) THEN "false"
             ELSE IF b = BadTime THEN "error"
             ELSE Bool3(t < b)
    ELSE Bool3(lower(trim(ts)) = lower(tm))

\* The condition on one element ts of time_slots:
\*   (position('-' in ts) > 0 AND $3::time >= split_part(ts,'-',1)::time
\*                            AND $3::time <= split_part(ts,'-',2)::time)
\*   OR (position('-' in ts) = 0 AND lower(trim(ts)) = lower($4))
\* The store evaluates AND/OR from left to right and stops as soon as the
\* result is known; a cast that is evaluated on unreadable text raises an
\* error, which aborts the statement.
SlotEval(ts, tm) ==
    IF position("-", ts) > 0
    THEN LET t == ParseTime(tm)
             a == ParseTime(split_part(ts, "-", 1))
             b == ParseTime(split_part(ts, "-", 2))
         IN  IF a = BadTime THEN "error"
             ELSE IF ~(t >= a) THEN "false"
             ELSE IF b = BadTime THEN "error"
             ELSE Bool3(t <= b)
    ELSE Bool3(lower(trim(ts)) = lower(tm))

\* EXISTS (SELECT 1 FROM unnest(time_slots) ts WHERE ...): elements are
\* visited in array order up to the first one that satisfies the condition.
RECURSIVE SlotsExist(_, _)
SlotsExist(slots, tm) ==
    IF slots = <<>> THEN "false"
    ELSE LET r == SlotEval(Head(slots), tm)
         IN  IF r = "false" THEN SlotsExist(Tail(slots), tm) ELSE r

\* Variant: the entry is compared as it is stored.
DeviceExists_Exact(devices, device) ==
    \E i \in 1..Len(devices) : devices[i] = device

\* EXISTS (SELECT 1 FROM unnest(devices) dv WHERE lower(trim(dv)) = lower($1))
DeviceExists(devices, device) ==
    \E i \in 1..Len(devices) : lower(trim(devices[i])) = lower(device)

\* EXISTS (SELECT 1 FROM unnest(selected_days) d WHERE lower(trim(d)) = lower($2))
DayExists(days, day) ==
    \E i \in 1..Len(days) : lower(trim(days[i])) = lower(day)

\* Variant: the day and slot conditions are applied whatever the flag.
RowEval_AlwaysFilter(row, device, activeNow, now) ==
    IF ~DeviceExists(row.devices, device) THEN "false"
    ELSE IF ~DayExists(row.selected_days, WeekdayString(now)) THEN "false"
    ELSE SlotsExist(row.time_slots, FormatHHMM(now))

\* The WHERE clause of ListByDevice/CountByDevice on one row: "true",
\* "false" or "error".  The three EXISTS conditions are evaluated in the
\* order they are written.
RowEval(row, device, activeNow, now) ==
    IF ~DeviceExists(row.devices, device) THEN "false"
    ELSE IF ~activeNow THEN "true"
    ELSE IF ~DayExists(row.selected_days, WeekdayString(now)) THEN "false"
    ELSE SlotsExist(row.time_slots, FormatHHMM(now))

QueryFails(table, device, activeNow, now) ==
    \E id \in DOMAIN table :
        RowEval(table[id], device, activeNow, now) = "error"

\* Variant: the query joins the campaign of each creative and keeps the
\* creatives of active campaigns.
QueryIds_ActiveCampaigns(table, device, activeNow, now) ==
    {id \in DOMAIN table :
        /\ RowEval(table[id], device, activeNow, now) = "true"
        /\ campaigns[IF id = "k1" THEN "c1" ELSE "c2"].status = activeStatus}

QueryIds(table, device, activeNow, now) ==
    {id \in DOMAIN table :
        RowEval(table[id], device, activeNow, now) = "true"}

\* ORDER BY uploaded_at DESC
RECURSIVE NewestFirst(_)
NewestFirst(ids) ==
    IF ids = {} THEN <<>>
    ELSE LET top == CHOOSE id \in ids :
                        \A o \in ids : UploadedAt(o) <= UploadedAt(id)
         IN  <<top>> \o NewestFirst(ids \ {top})

\* LIMIT l OFFSET o (each applied only when positive)
Page(rows, limit, offset) ==
    LET from == IF offset > 0 THEN offset + 1 ELSE 1
        rest == SubSeq(rows, from, Len(rows))
    IN  IF limit > 0 /\ limit < Len(rest) THEN SubSeq(rest, 1, limit) ELSE rest

ListByDevice(table, device, activeNow, now, limit, offset) ==
    IF QueryFails(table, device, activeNow, now)
    THEN [err |-> TRUE, rows |-> <<>>]
    ELSE [err |-> FALSE,
          rows |-> Page(NewestFirst(QueryIds(table, device, activeNow, now)),
                        limit, offset)]

CountByDevice(table, device, activeNow, now) ==
    IF QueryFails(table, device, activeNow, now)
    THEN [err |-> TRUE, total |-> 0]
    ELSE [err |-> FALSE,
          total |-> Cardinality(QueryIds(table, device, activeNow, now))]

(***************************************************************************)
(* GET /api/v1/creatives/device/{device}                                   *)
(***************************************************************************)
DefaultPageSize == 50

RequestDevices == {Kiosk1, LobbyALower, LobbyAUpper, <<>>}
ActiveNowParams == {"", "TRUE", "1"}

\* strings.EqualFold(v, "true") || v == "1"
ParseActiveNow(v) == v \in {"true", "TRUE", "True"} \/ v = "1"

\* Store faults (connection lost, context cancelled) of either query.
Faults == {"none", "count", "list"}

\* Variant: a list query that breaks off is answered with the rows read so
\* far.
ListCreativesByDevice_PartialOnFault(device, activeNowParam, fault) ==
    LET activeNow == ParseActiveNow(activeNowParam)
        now == clock
        cnt == CountByDevice(creatives, device, activeNow, now)
        lst == ListByDevice(creatives, device, activeNow, now,
                            DefaultPageSize, 0)
        req == [op |-> "list", device |-> device, activeNow |-> activeNow,
                now |-> now, fault |-> fault]
    IN  /\ resp = NoResponse
        /\ resp' =
              IF device = <<>>
              THEN req @@ [status |-> 400, data |-> <<>>, total |-> 0]
              ELSE IF fault = "count" \/ cnt.err
              THEN req @@ [status |-> 500, data |-> <<>>, total |-> 0]
              ELSE IF lst.err
              THEN req @@ [status |-> 500, data |-> <<>>, total |-> 0]
              ELSE IF fault = "list"
              THEN req @@ [status |-> 200,
                           data |-> SubSeq(lst.rows, 1, Len(lst.rows) - 1),
                           total |-> cnt.total]
              ELSE req @@ [status |-> 200, data |-> lst.rows,
                           total |-> cnt.total]
        /\ UNCHANGED <<schedVars, creatives, crudVars>>

\* CreativeHandler.ListCreativesByDevice: 400 without a device, 500 when
\* either query fails, else 200 with the page and the total.
ListCreativesByDevice(device, activeNowParam, fault) ==
    LET activeNow == ParseActiveNow(activeNowParam)
        now == clock
        cnt == CountByDevice(creatives, device, activeNow, now)
        lst == ListByDevice(creatives, device, activeNow, now,
                            DefaultPageSize, 0)
        req == [op |-> "list", device |-> device, activeNow |-> activeNow,
                now |-> now, fault |-> fault]
    IN  /\ resp = NoResponse
        /\ resp' =
              IF device = <<>>
              THEN req @@ [status |-> 400, data |-> <<>>, total |-> 0]
              ELSE IF fault = "count" \/ cnt.err
              THEN req @@ [status |-> 500, data |-> <<>>, total |-> 0]
              ELSE IF fault = "list" \/ lst.err
              THEN req @@ [status |-> 500, data |-> <<>>, total |-> 0]
              ELSE req @@ [status |-> 200, data |-> lst.rows,
                           total |-> cnt.total]
        /\ UNCHANGED <<schedVars, creatives, crudVars>>

\* The response has been written to the client.
ResponseSent ==
    /\ resp # NoResponse
    /\ resp' = NoResponse
    /\ UNCHANGED <<schedVars, creatives, crudVars>>

IdleCampaigns ==
    [id \in CampaignIds |->
        [status |-> "draft", start_date |-> 1440, end_date |-> 2880]]

ResolverInit ==
    /\ clock \in RequestInstants
    /\ cancelled = FALSE
    /\ tzName = "UTC"
    /\ campaigns = IdleCampaigns
    /\ pc = [l \in Loops |-> "loop"]
    /\ runAt = [l \in Loops |-> 0]
    /\ last = NoStep
    /\ config = DefaultConfig
    /\ call = NoCalls
    /\ edit = NoEdit
    /\ creatives \in [CreativeIds -> CreativeRows]
    /\ resp = NoResponse

ResolverNext ==
    \/ \E device \in RequestDevices, p \in ActiveNowParams, fault \in Faults :
        ListCreativesByDevice(device, p, fault)
    \/ ResponseSent

ResolverSpec == ResolverInit /\ [][ResolverNext]_vars

(***************************************************************************)
(* Properties of the lifecycle scheduler                                   *)
(***************************************************************************)
\* "Today" of the tick just taken: the civil date of the instant the loop
\* passed, in the configured timezone.
LastToday == CivilDate(last.now, tzName)

ActivatedOk == last.op = "activate" /\ last.ok
CompletedOk == last.op = "complete" /\ last.ok

\* C1: after a successful Activate tick, every campaign that was scheduled
\* with the civil date of start_date (configured timezone) equal to today
\* is active.
C1_ActivatePost ==
    ActivatedOk =>
        \A id \in CampaignIds :
            (/\ last.before[id].status = "scheduled"
             /\ CivilDate(last.before[id].start_date, tzName) = LastToday)
            => campaigns[id].status = "active"

\* A tick in a zone other than UTC has activated a campaign whose start
\* falls on another civil date in UTC than in the configured zone.
C1_Witness ==
    /\ ActivatedOk
    /\ \E id \in CampaignIds :
          /\ last.before[id].status = "scheduled"
          /\ CivilDate(last.before[id].start_date, tzName) = LastToday
          /\ CivilDate(last.before[id].start_date, "UTC") # LastToday
          /\ campaigns[id].status = "active"

\* C2: after a successful Complete tick, every campaign that was active with
\* the civil date of end_date strictly before today is completed.
C2_CompletePost ==
    CompletedOk =>
        \A id \in CampaignIds :
            (/\ last.before[id].status = "active"
             /\ CivilDate(last.before[id].end_date, tzName) < LastToday)
            => campaigns[id].status = "completed"

C2_Witness ==
    /\ CompletedOk
    /\ \E id \in CampaignIds :
          /\ last.before[id].status = "active"
          /\ CivilDate(last.before[id].end_date, tzName) < LastToday
          /\ campaigns[id].status = "completed"

\* Instants of the civil date of the last tick at which a second tick could
\* run: the tick's own instant, a minute later, and the first and the last
\* minute of that date.
SameDayInstants ==
    {last.now, last.now + 1,
     DateAt(LastToday, 0, tzName), DateAt(LastToday, MinutesPerDay - 1, tzName)}

\* C4: a second Activate transition for the same today, applied to the store
\* as a successful tick left it, changes no campaign and counts 0 rows.
C4_ActivateIdempotent ==
    ActivatedOk =>
        \A t \in SameDayInstants :
            /\ CivilDate(t, tzName) = LastToday
            /\ ActivateScheduledStartingOn(campaigns, t, scheduledStatus,
                                           tzName) = campaigns
            /\ ActivateRowsAffected(campaigns, t, scheduledStatus, tzName) = 0

\* The first tick counted at least one row.
C4_Witness ==
    /\ ActivatedOk
    /\ last.rows > 0
    /\ campaigns # last.before

\* C5: every step changes a campaign only by scheduled -> active or by
\* active -> completed; a draft, paused or completed campaign is never
\* changed.
C5_OnlySchedulerTransitions ==
    [][\A id \in CampaignIds :
          /\ campaigns'[id].start_date = campaigns[id].start_date
          /\ campaigns'[id].end_date = campaigns[id].end_date
          /\ campaigns'[id].status # campaigns[id].status =>
                \/ /\ campaigns[id].status = "scheduled"
                   /\ campaigns'[id].status = "active"
                \/ /\ campaigns[id].status = "active"
                   /\ campaigns'[id].status = "completed"
          /\ campaigns[id].status \in {"draft", "paused", "completed"} =>
                campaigns'[id] = campaigns[id]]_vars

\* A tick has changed one campaign and has left a draft, paused or completed
\* campaign with a matching date as it was.
C5_Witness ==
    /\ last.op \in {"activate", "complete"}
    /\ last.ok
    /\ \E id \in CampaignIds : campaigns[id].status # last.before[id].status
    /\ \E id \in CampaignIds :
          /\ last.before[id].status \in {"draft", "paused", "completed"}
          /\ \/ CivilDate(last.before[id].start_date, tzName) = LastToday
             \/ CivilDate(last.before[id].end_date, tzName) < LastToday
          /\ campaigns[id] = last.before[id]

\* C6: an Activate tick leaves unchanged every campaign whose status is not
\* scheduled or whose start_date falls on another civil date than today.
C6_ActivateFrame ==
    last.op = "activate" =>
        \A id \in CampaignIds :
            ~(/\ last.before[id].status = "scheduled"
              /\ CivilDate(last.before[id].start_date, tzName) = LastToday)
            => campaigns[id] = last.before[id]

\* A successful tick the day before a scheduled campaign's start date (and
\* one after it) has left it scheduled.
C6_Witness ==
    /\ ActivatedOk
    /\ \E id \in CampaignIds :
          /\ last.before[id].status = "scheduled"
          /\ CivilDate(last.before[id].start_date, tzName) = LastToday + 1
          /\ campaigns[id].status = "scheduled"

\* C7: a Complete tick leaves unchanged every active campaign whose end_date
\* falls on today or later (civil dates), and every campaign that is not
\* active.
C7_CompleteStrict ==
    last.op = "complete" =>
        \A id \in CampaignIds :
            (\/ last.before[id].status # "active"
             \/ CivilDate(last.before[id].end_date, tzName) >= LastToday)
            => campaigns[id] = last.before[id]

\* A successful tick has left active a campaign that ends today although
\* the instant of its end_date has already passed.
C7_Witness ==
    /\ CompletedOk
    /\ \E id \in CampaignIds :
          /\ last.before[id].status = "active"
          /\ CivilDate(last.before[id].end_date, tzName) = LastToday
          /\ last.before[id].end_date < last.now
          /\ campaigns[id].status = "active"

(***************************************************************************)
(* Properties of the targeting resolver                                    *)
(***************************************************************************)
\* The last request was answered 200 with the list of creatives.
Listed == resp.op = "list" /\ resp.status = 200

Returned == {resp.data[i] : i \in 1..Len(resp.data)}

\* Time of day of the request's instant, in minutes.
RequestTime == resp.now % MinutesPerDay

\* The creative is assigned to the requested device and to the weekday of
\* the request's instant.
Targeted(id) ==
    /\ DeviceExists(creatives[id].devices, resp.device)
    /\ DayExists(creatives[id].selected_days, WeekdayString(resp.now))

SlotStart(ts) == ParseTime(split_part(ts, "-", 1))
SlotEnd(ts) == ParseTime(split_part(ts, "-", 2))

\* ts is a range whose two parts are readable as HH:MM.
IsRange(ts) ==
    position("-", ts) > 0 /\ SlotStart(ts) # BadTime /\ SlotEnd(ts) # BadTime

OnlySlot(id) == creatives[id].time_slots[1]

\* C3: with the filter on, a creative whose only slot is a range with
\* start > end is returned exactly at the times t >= start or t <= end
\* ("22:00-02:00": at 23:30, 00:15 and 02:00, not at 02:01 or 12:00).
C3_OvernightWindow ==
    (Listed /\ resp.activeNow) =>
        \A id \in CreativeIds :
            (/\ Len(creatives[id].time_slots) = 1
             /\ IsRange(OnlySlot(id))
             /\ SlotStart(OnlySlot(id)) > SlotEnd(OnlySlot(id))
             /\ Targeted(id))
            => (id \in Returned <=>
                    \/ RequestTime >= SlotStart(OnlySlot(id))
                    \/ RequestTime <= SlotEnd(OnlySlot(id)))

\* C8: with the filter on, a creative whose only slot is a range with
\* start <= end is returned exactly at the times start <= t <= end.
C8_NormalWindow ==
    (Listed /\ resp.activeNow) =>
        \A id \in CreativeIds :
            (/\ Len(creatives[id].time_slots) = 1
             /\ IsRange(OnlySlot(id))
             /\ SlotStart(OnlySlot(id)) <= SlotEnd(OnlySlot(id))
             /\ Targeted(id))
            => (id \in Returned <=>
                    /\ SlotStart(OnlySlot(id)) <= RequestTime
                    /\ RequestTime <= SlotEnd(OnlySlot(id)))

\* "09:00-17:00" is returned for a request at 17:00.
C8_Witness ==
    /\ Listed
    /\ resp.activeNow
    /\ RequestTime = 1020
    /\ \E id \in CreativeIds :
          /\ creatives[id].time_slots = <<Slot0900_1700>>
          /\ Targeted(id)
          /\ id \in Returned

\* A slot covers time of day t: a readable range covers its window, normal
\* or overnight; a bare label covers the instant it names; an unreadable
\* range covers nothing.
Covers(ts, t) ==
    IF position("-", ts) = 0 THEN lower(trim(ts)) = lower(FormatHHMM(t))
    ELSE IF ~IsRange(ts) THEN FALSE
    ELSE IF SlotStart(ts) <= SlotEnd(ts)
         THEN SlotStart(ts) <= t /\ t <= SlotEnd(ts)
         ELSE t >= SlotStart(ts) \/ t <= SlotEnd(ts)

\* C9: with the filter on, the creatives returned are exactly those whose
\* devices contain the device, whose selected_days contain the weekday and
\* of which at least one slot covers the time of day.
C9_FilterMode ==
    (Listed /\ resp.activeNow) =>
        Returned =
            {id \in CreativeIds :
                /\ Targeted(id)
                /\ \E i \in 1..Len(creatives[id].time_slots) :
                      Covers(creatives[id].time_slots[i], RequestTime)}

\* A creative matches by a well-formed slot.
MatchesWellFormed(id) ==
    /\ Targeted(id)
    /\ \E i \in 1..Len(creatives[id].time_slots) :
          LET ts == creatives[id].time_slots[i]
          IN  /\ position("-", ts) > 0 => IsRange(ts)
              /\ SlotEval(ts, FormatHHMM(resp.now)) = "true"

\* C10: with the filter on and no store fault, a request succeeds whatever
\* malformed slots the store holds, and returns every creative that
\* matches by a well-formed slot.
C10_MalformedSlotIsolated ==
    (/\ resp.op = "list"
     /\ resp.device # <<>>
     /\ resp.activeNow
     /\ resp.fault = "none")
    => /\ resp.status = 200
       /\ Returned = {id \in CreativeIds : MatchesWellFormed(id)}

(***************************************************************************)
(* Properties of cancellation, failure and timing                          *)
(***************************************************************************)
\* C11: a call that has been submitted to the store is never ended by the
\* stop request: it leaves the store with a result, with a store error or
\* with its own deadline, not with "context canceled".
C11_InFlightCallRunsOn ==
    [][\A l \in Loops :
          (pc[l] = "call" /\ pc'[l] # "call") =>
              call'[l].err # "context canceled"]_vars

\* C12: once the scheduler context is cancelled no loop submits a statement
\* to the store, and a loop that is waiting for its fire instant leaves the
\* wait and terminates.
C12_CancelDuringWait ==
    /\ [][cancelled => \A l \in Loops :
                          ~(pc[l] # "call" /\ pc'[l] = "call")]_vars
    /\ \A l \in Loops : (cancelled /\ pc[l] = "wait") ~> (pc[l] = "done")

\* Both loops have terminated on cancellation, the activator out of a wait
\* whose fire instant had not come.
C12_Witness ==
    /\ cancelled
    /\ \A l \in Loops : pc[l] = "done"
    /\ clock < runAt["activator"]
    /\ clock > LoopStart

\* A campaign whose end_date lies on an earlier civil date than its
\* start_date.  In LoopInit every such campaign is scheduled, and Activate
\* takes it only on the civil date of its start_date.
PastEndOnStart(id) ==
    CivilDate(campaigns[id].end_date, tzName)
        < CivilDate(campaigns[id].start_date, tzName)

StartDay(id) == CivilDate(campaigns[id].start_date, tzName)

\* C13 as stated: a campaign eligible for activation today whose end_date
\* is already before today is completed only on a later day than the day
\* it was activated on.
C13_CompletedOnLaterDay ==
    \A id \in CampaignIds :
        (PastEndOnStart(id) /\ campaigns[id].status = completedStatus) =>
            CivilDate(clock, tzName) > StartDay(id)

\* C13, amended: no single step moves a campaign from scheduled to
\* completed; such a campaign is first activated, and it is completed by a
\* separate Complete statement, not before the day it was activated on.
C13_NeverBothInOnePass ==
    /\ [][\A id \in CampaignIds :
            ~(campaigns[id].status = scheduledStatus
                /\ campaigns'[id].status = completedStatus)]_vars
    /\ [](\A id \in CampaignIds :
            (PastEndOnStart(id) /\ campaigns[id].status = completedStatus) =>
                CivilDate(clock, tzName) >= StartDay(id))

\* Such a campaign has been activated and completed on the same civil date.
C13_Witness ==
    \E id \in CampaignIds :
        /\ PastEndOnStart(id)
        /\ campaigns[id].status = completedStatus
        /\ CivilDate(clock, tzName) = StartDay(id)

\* C14: a call that returns an error changes nothing and leaves the loop
\* running; the fire instant the loop computes next lies after the instant
\* at which it computes it, so there is no immediate retry; and the next
\* attempt is not made before that fire instant.
C14_NoImmediateRetry ==
    [][\A l \in Loops :
          /\ (pc[l] \in {"run", "call"} /\ pc'[l] \notin {"run", "call"}
                /\ call'[l].err # "")
                => (pc'[l] = "loop" /\ campaigns' = campaigns)
          /\ (pc[l] = "loop" /\ pc'[l] = "wait" /\ call[l].err # "")
                => runAt'[l] > clock
          /\ (pc[l] = "wait" /\ pc'[l] = "run") => clock >= runAt[l]]_vars

(***************************************************************************)
(* nextRunAt on its own                                                     *)
(*                                                                         *)
(* nextRunAt applied to instants on both sides of midnight, of the fire    *)
(* times and of the end of daylight saving time, in every zone.            *)
(***************************************************************************)
\* Minutes after LoopStart of the instants tried.
NowOffsets == {0, 1, 2, 3, 240, 241, 242, 299, 300, 301, 302, 389, 390, 719,
               720, 721, 1109, 1110, 1111, 1439, 1440, 1441, 1442, 1680, 1681,
               1682, 1739, 1740, 1741, 2159, 2160}

\* Configured fire times of day (hour * 60 + minute) tried.
FireTimes == {ActivatorFireTime, CompleterFireTime, 720, 1439}

NextRunInit ==
    /\ clock \in {LoopStart + d : d \in NowOffsets}
    /\ cancelled = FALSE
    /\ tzName \in ZoneNames
    /\ campaigns = IdleCampaigns
    /\ pc = [l \in Loops |-> "done"]
    /\ runAt = [l \in Loops |-> 0]
    /\ last = NoStep
    /\ config = DefaultConfig
    /\ call = NoCalls
    /\ edit = NoEdit
    /\ creatives = NoCreatives
    /\ resp = NoResponse

\* runAt := nextRunAt(now, loc, hour, minute)
NextRunAtCall(fireTime) ==
    /\ last = NoStep
    /\ last' = [op |-> "nextRunAt", now |-> clock, fireTime |-> fireTime,
                run |-> nextRunAt(clock, tzName, fireTime)]
    /\ UNCHANGED <<clock, cancelled, tzName, campaigns, pc, runAt, config,
                   call, resolverVars, crudVars>>

NextRunNext == \E fireTime \in FireTimes : NextRunAtCall(fireTime)

NextRunSpec == NextRunInit /\ [][NextRunNext]_vars

\* Time of day in zone tz at instant t.
TimeOfDay(t, tz) == (t + ZoneOffset(tz, t)) % MinutesPerDay

\* C15: the instant returned is strictly after now, shows the configured
\* HH:MM in the timezone, and falls on today's civil date when now is
\* before today's HH:MM and on tomorrow's otherwise.
C15_NextFireInstant ==
    last.op = "nextRunAt" =>
        /\ last.run > last.now
        /\ TimeOfDay(last.run, tzName) = last.fireTime
        /\ CivilDate(last.run, tzName) =
              IF TimeOfDay(last.now, tzName) < last.fireTime
              THEN CivilDate(last.now, tzName)
              ELSE CivilDate(last.now, tzName) + 1

\* C16: without cancellation each loop keeps going round: every tick ends,
\* by result or by error, with the loop at its head again; from there the
\* loop computes its next fire instant and waits; and when that instant
\* lies within the horizon of the clock the loop fires again.
C16_LoopsKeepFiring ==
    \A l \in Loops :
        /\ (pc[l] = "call") ~> (pc[l] = "loop")
        /\ (pc[l] = "loop") ~> (pc[l] = "wait")
        /\ (pc[l] = "wait" /\ runAt[l] <= LoopEnd)
              ~> (pc[l] = "call" \/ cancelled)

\* Without cancellation both loops are in a tick of the second day, the
\* activator's after an error.
C16_Witness ==
    /\ ~cancelled
    /\ \A l \in Loops : pc[l] = "call" /\ call[l].now > LoopStart + MinutesPerDay
    /\ tzName = "UTC"

\* The predicate of the statement of loop l.
Matches(l, row, now) ==
    IF l = "activator"
    THEN ActivateMatches(row, now, scheduledStatus, tzName)
    ELSE CompleteMatches(row, now, activeStatus, tzName)

Target(l) == IF l = "activator" THEN "active" ELSE completedStatus

\* C17: every step that changes the table is the statement of one call in
\* flight applied as a whole: each campaign that matched its predicate is
\* transitioned and every other campaign is left as it was.  A call that
\* ends in an error, by cancellation or timeout included, changes nothing.
C17_Atomic ==
    [][/\ campaigns' # campaigns =>
            \E l \in Loops :
                /\ pc[l] = "call" /\ ~call[l].committed /\ call'[l].committed
                /\ \A id \in CampaignIds :
                      campaigns'[id] =
                          IF Matches(l, campaigns[id], call[l].now)
                          THEN [campaigns[id] EXCEPT !.status = Target(l)]
                          ELSE campaigns[id]
       /\ \A l \in Loops :
            (pc[l] = "call" /\ pc'[l] # "call") => campaigns' = campaigns]_vars

\* The statement of a call has transitioned both campaigns and the
\* scheduler was cancelled while the call was still in flight.
C17_Witness ==
    \E l \in Loops :
        /\ pc[l] = "call"
        /\ call[l].committed
        /\ call[l].rows = Cardinality(CampaignIds)
        /\ cancelled
        /\ \A id \in CampaignIds : campaigns[id].status = Target(l)

(***************************************************************************)
(* The scheduler with the status names overridden                          *)
(***************************************************************************)
\* Values of CAMPAIGN_SCHEDULED_STATUS, CAMPAIGN_ACTIVE_STATUS and
\* CAMPAIGN_COMPLETED_STATUS: unset, blank, or another name.
EnvScheduledStatus == {"", " ", "queued"}
EnvActiveStatus == {"", "running"}
EnvCompletedStatus == {"", "finished"}

\* Campaigns that start on the second day and end on it, under the default
\* and the overriding names.
ConfigRows ==
    [status : {"scheduled", "queued", "active", "running"},
     start_date : {MinutesPerDay},
     end_date : {MinutesPerDay + 1260}]

ConfigInit ==
    /\ clock = 0
    /\ cancelled = FALSE
    /\ tzName = "UTC"
    /\ campaigns \in [CampaignIds -> ConfigRows]
    /\ pc = [l \in Loops |-> "loop"]
    /\ runAt = [l \in Loops |-> 0]
    /\ last = NoStep
    /\ config \in {StatusConfig(s, a, c) @@ [fireTime |-> DefaultFireTimes] :
                        s \in EnvScheduledStatus,
                        a \in EnvActiveStatus,
                        c \in EnvCompletedStatus}
    /\ call = NoCalls
    /\ edit = NoEdit
    /\ creatives = NoCreatives
    /\ resp = NoResponse

ConfigSpec == ConfigInit /\ [][Next]_vars

\* C18: a successful Activate tick leaves every campaign it took, those
\* under the configured scheduled name that start today, under the
\* configured active name, and a successful Complete tick leaves every
\* campaign it took, those under the configured active name that ended
\* before today, under the configured completed name.
C18_ConfiguredNames ==
    /\ (last.op = "activate" /\ last.ok) =>
          \A id \in CampaignIds :
              ActivateMatches(last.before[id], last.now, scheduledStatus,
                              tzName)
                  => campaigns[id].status = activeStatus
    /\ (last.op = "complete" /\ last.ok) =>
          \A id \in CampaignIds :
              CompleteMatches(last.before[id], last.now, activeStatus, tzName)
                  => campaigns[id].status = completedStatus

(***************************************************************************)
(* Properties of the device match                                          *)
(***************************************************************************)
\* An entry of the creative's devices equals the requested device once the
\* entry is stripped of surrounding spaces and both are put in lower case.
EntryMatches(id) ==
    \E i \in 1..Len(creatives[id].devices) :
        lower(trim(creatives[id].devices[i])) = lower(resp.device)

\* C19: the list and the count take a creative only by an entry of its
\* devices that equals the requested device up to case and to spaces
\* around the entry; with the filter off they take every such creative; a
\* creative without devices is never taken.
C19_DeviceMatch ==
    Listed =>
        /\ \A id \in Returned : EntryMatches(id)
        /\ ~resp.activeNow => \A id \in CreativeIds :
                                  EntryMatches(id) => id \in Returned
        /\ resp.total = Cardinality(Returned)
        /\ \A id \in CreativeIds :
              creatives[id].devices = <<>> => id \notin Returned

\* A request for "lobby-a" returns the creative with entry " Lobby-A " and
\* not the one without devices, and counts one.
C19_Witness ==
    /\ Listed
    /\ resp.device = LobbyALower
    /\ resp.total = 1
    /\ \E id \in Returned : creatives[id].devices[1] = LobbyAPadded
    /\ \E id \in CreativeIds : creatives[id].devices = <<>>

\* C20: with the filter off a request without store fault succeeds and
\* returns every creative whose devices contain the requested device,
\* whatever its days and slots and whatever the instant.
C20_NoFilterMode ==
    (/\ resp.op = "list"
     /\ resp.device # <<>>
     /\ ~resp.activeNow
     /\ resp.fault = "none")
    => /\ resp.status = 200
       /\ Returned = {id \in CreativeIds : EntryMatches(id)}

\* With the filter off, late on a Monday, a request returns a creative that
\* has no days and whose slots are an unreadable one and a morning window.
C20_Witness ==
    /\ Listed
    /\ ~resp.activeNow
    /\ RequestTime = 1410
    /\ \E id \in Returned :
          /\ creatives[id].selected_days = <<>>
          /\ creatives[id].time_slots = <<SlotBadBoth, Slot0800_1000>>

(***************************************************************************)
(* Properties of bare labels and of failing queries                        *)
(***************************************************************************)
\* Every slot of the creative is a bare label: it has no range separator.
OnlyLabels(id) ==
    /\ creatives[id].time_slots # <<>>
    /\ \A i \in 1..Len(creatives[id].time_slots) :
          position("-", creatives[id].time_slots[i]) = 0

\* A slot of the creative equals the label of the request's instant, its
\* HH:MM, up to case and to spaces around the slot.
LabelMatches(id) ==
    \E i \in 1..Len(creatives[id].time_slots) :
        lower(trim(creatives[id].time_slots[i]))
            = lower(FormatHHMM(resp.now))

\* C21: with the filter on, a creative assigned to the device and the
\* weekday whose slots are bare labels is returned exactly when one of them
\* equals the label of the instant; and a request over creatives that have
\* only bare labels never fails on reading a slot as a range.
C21_BareLabel ==
    /\ (Listed /\ resp.activeNow) =>
          \A id \in CreativeIds :
              (Targeted(id) /\ OnlyLabels(id)) =>
                  (id \in Returned <=> LabelMatches(id))
    /\ (/\ resp.op = "list"
        /\ resp.device # <<>>
        /\ resp.activeNow
        /\ resp.fault = "none"
        /\ \A id \in CreativeIds : OnlyLabels(id))
       => resp.status = 200

\* At 09:00 on a Monday the creative with the label " 09:00 " is returned
\* and the one with the label "All Day" is not.
C21_Witness ==
    /\ Listed
    /\ resp.activeNow
    /\ RequestTime = 540
    /\ \E id \in Returned : creatives[id].time_slots = <<SlotLabelPadded>>
    /\ \E id \in CreativeIds :
          /\ Targeted(id)
          /\ creatives[id].time_slots = <<SlotLabelName>>
          /\ id \notin Returned

(***************************************************************************)
(* Start of the loops                                                      *)
(*                                                                         *)
(* startScheduledCampaignActivator and startScheduledCampaignCompleter     *)
(* read the timezone name and the fire time from the environment before    *)
(* they start their goroutine.                                             *)
(***************************************************************************)
\* strconv.Atoi on short text: an optional sign and at least one digit.
Atoi(s) ==
    LET signed == s # <<>> /\ Head(s) \in {"+", "-"}
        body == IF signed THEN Tail(s) ELSE s
    IN  IF body = <<>> \/ \E i \in 1..Len(body) : ~IsDigit(body[i])
        THEN [err |-> TRUE, n |-> 0]
        ELSE [err |-> FALSE,
              n |-> IF signed /\ Head(s) = "-" THEN 0 - Number(body)
                    ELSE Number(body)]

\* Variant: the range of hour and minute is not looked at.
parseHHMM_AnyNumber(s, defaultHour, defaultMinute) ==
    LET parts == SplitFields(s, ":")
    IN  IF Len(parts) # 2 THEN <<defaultHour, defaultMinute>>
        ELSE IF Atoi(parts[1]).err THEN <<defaultHour, defaultMinute>>
        ELSE IF Atoi(parts[2]).err THEN <<defaultHour, defaultMinute>>
        ELSE <<Atoi(parts[1]).n, Atoi(parts[2]).n>>

parseHHMM(s, defaultHour, defaultMinute) ==
    LET parts == SplitFields(s, ":")
    IN  IF Len(parts) # 2 THEN <<defaultHour, defaultMinute>>
        ELSE IF Atoi(parts[1]).err THEN <<defaultHour, defaultMinute>>
        ELSE IF Atoi(parts[2]).err THEN <<defaultHour, defaultMinute>>
        ELSE LET h == Atoi(parts[1]).n
                 m == Atoi(parts[2]).n
             IN  IF h < 0 \/ h > 23 \/ m < 0 \/ m > 59
                 THEN <<defaultHour, defaultMinute>>
                 ELSE <<h, m>>

\* getEnv on text: the default when the variable is unset or blank.
getEnvText(value, defaultValue) ==
    IF trim(value) = <<>> THEN defaultValue ELSE value

\* "00:01" and "00:02".
DefaultHHMM(l) ==
    <<"0", "0", ":", "0", IF l = "activator" THEN "1" ELSE "2">>

DefaultHour(l) == DefaultFireTimes[l] \div 60
DefaultMinute(l) == DefaultFireTimes[l] % 60

\* Values of CAMPAIGN_SCHEDULER_TIME and CAMPAIGN_COMPLETER_TIME: unset,
\* readable, with single digits and signs, out of range, and unreadable.
EnvHHMM ==
    {<<>>,
     <<"0", "7", ":", "0", "5">>,
     <<"7", ":", "5">>,
     <<"+", "7", ":", "0", "5">>,
     <<"2", "3", ":", "5", "9">>,
     <<"2", "4", ":", "0", "0">>,
     <<"1", "2", ":", "6", "0">>,
     <<"-", "1", ":", "3", "0">>,
     <<"0", "7", "3", "0">>,
     <<"1", "2", ":", "3", "0", ":", "0", "0">>,
     <<"a", "b", ":", "c", "d">>,
     <<"1", "2", ":">>,
     <<" ", "0", "7", ":", "0", "5">>}

\* The two variables together: one of them set, or both set alike.
EnvFireTimes ==
    {h \in [Loops -> EnvHHMM] :
        \/ h["activator"] = h["completer"]
        \/ \E l \in Loops : h[l] = <<>>}

\* Values of CAMPAIGN_SCHEDULER_TZ: unset, blank, resolving and not.
EnvTZStart == EnvTZ \cup BlankStrings

\* The head of startScheduledCampaignActivator / Completer, up to go func().
StartLoop(l) ==
    /\ pc[l] = "start"
    /\ LET name == getEnv(config.env.tz, "UTC")
           hhmm == getEnvText(config.env.hhmm[l], DefaultHHMM(l))
           hm == parseHHMM(hhmm, DefaultHour(l), DefaultMinute(l))
           found == name \in ZoneNames
           loc == IF found THEN name ELSE "UTC"
           tz == IF found THEN name ELSE "UTC"
       IN  /\ tzName' = tz
           /\ config' = [config EXCEPT !.fireTime[l] = hm[1] * 60 + hm[2]]
           /\ last' = [op |-> "start", loop |-> l, loc |-> loc, tzName |-> tz,
                       hour |-> hm[1], minute |-> hm[2]]
    /\ pc' = [pc EXCEPT ![l] = "loop"]
    /\ UNCHANGED <<clock, cancelled, campaigns, runAt, call,
                   resolverVars, crudVars>>

StartInit ==
    /\ clock = 0
    /\ cancelled = FALSE
    /\ tzName = "UTC"
    /\ campaigns = IdleCampaigns
    /\ pc = [l \in Loops |-> "start"]
    /\ runAt = [l \in Loops |-> 0]
    /\ last = NoStep
    /\ config \in {DefaultConfig @@ [env |-> [tz |-> z, hhmm |-> h]] :
                        z \in EnvTZStart, h \in EnvFireTimes}
    /\ call = NoCalls
    /\ edit = NoEdit
    /\ creatives = NoCreatives
    /\ resp = NoResponse

StartNext ==
    \/ \E l \in Loops : StartLoop(l)
    \/ Next

StartSpec == StartInit /\ [][StartNext]_vars

\* The text reads as hour:minute: two fields, each a decimal number, with
\* the hour in 0..23 and the minute in 0..59.
ReadableHHMM(text) ==
    LET f == SplitFields(text, ":")
    IN  /\ Len(f) = 2
        /\ ~Atoi(f[1]).err /\ Atoi(f[1]).n \in 0..23
        /\ ~Atoi(f[2]).err /\ Atoi(f[2]).n \in 0..59

\* C22: whatever the environment holds, the start of a loop leaves the loop
\* running.  A timezone name that does not resolve gives UTC, as location
\* for the fire instant and as name passed to the store; a fire time that
\* is unset, unreadable or out of range gives the loop's default, 00:01 or
\* 00:02; and the loop then waits for that time of day in that timezone.
C22_ConfigFallback ==
    /\ last.op = "start" =>
          /\ pc[last.loop] = "loop"
          /\ IF config.env.tz \in ZoneNames
             THEN last.loc = config.env.tz /\ last.tzName = config.env.tz
             ELSE last.loc = "UTC" /\ last.tzName = "UTC"
          /\ tzName = last.tzName
          /\ ~ReadableHHMM(config.env.hhmm[last.loop]) =>
                /\ last.hour * 60 + last.minute = DefaultFireTimes[last.loop]
                /\ FireTime(last.loop) = DefaultFireTimes[last.loop]
          /\ last.hour \in 0..23 /\ last.minute \in 0..59
    /\ \A l \in Loops :
          pc[l] = "wait" =>
              /\ TimeOfDay(runAt[l], tzName) = FireTime(l)
              /\ ~ReadableHHMM(config.env.hhmm[l]) =>
                    FireTime(l) = DefaultFireTimes[l]

\* With a timezone name that does not resolve and the fire time "24:00"
\* the completer waits for 00:02 UTC.
C22_Witness ==
    /\ config.env.tz = "Mars/Phobos"
    /\ config.env.hhmm["completer"] = <<"2", "4", ":", "0", "0">>
    /\ pc["completer"] = "wait"
    /\ tzName = "UTC"
    /\ runAt["completer"] = CompleterFireTime

(***************************************************************************)
(* Properties of the count, of the date range and of concurrent edits      *)
(***************************************************************************)
\* The campaigns the tick just taken has transitioned.
Transitioned == {id \in CampaignIds : campaigns[id] # last.before[id]}

\* C23: a tick whose statement the store executed without error reports
\* the number of campaigns it transitioned; when none matched it reports 0
\* and is a success like any other.
C23_CountContract ==
    (last.op \in {"activate", "complete"} /\ last.ok) =>
        /\ last.rows = Cardinality(Transitioned)
        /\ last.op = "activate" =>
              Transitioned =
                  {id \in CampaignIds :
                      ActivateMatches(last.before[id], last.now,
                                      scheduledStatus, tzName)}
        /\ last.op = "complete" =>
              Transitioned =
                  {id \in CampaignIds :
                      CompleteMatches(last.before[id], last.now,
                                      activeStatus, tzName)}

\* An Activate tick has succeeded with count 0 while a campaign was
\* scheduled for another day.
C23_Witness ==
    /\ last.op = "activate"
    /\ last.ok
    /\ last.rows = 0
    /\ \E id \in CampaignIds : last.before[id].status = scheduledStatus

(***************************************************************************)
(* Campaign requests                                                       *)
(*                                                                         *)
(* POST /campaigns and PUT /campaigns/{id} next to the scheduler loops.    *)
(* UpdateCampaign reads the campaign, overlays the fields of the request   *)
(* and writes the whole row back: its read and its write are two steps.    *)
(***************************************************************************)
\* Campaigns the requests are about.
CrudIds == {"c1"}

\* Instants a request can carry as start_date or end_date.
CrudDates == StartDates \cup {2 * MinutesPerDay}

\* An optional field of UpdateCampaignRequest: <<>> when absent (nil),
\* <<v>> when present.
Opt(S) == {<<>>} \cup {<<v>> : v \in S}

UpdateRequests ==
    [status : Opt({"scheduled"}), start_date : Opt(CrudDates),
     end_date : Opt(CrudDates)]

\* No campaign has been created.
NoCampaigns == [id \in {} |-> NoStep]

\* validator.Struct(CreateCampaignRequest): EndDate gtfield=StartDate.
CreateValid(start, end) == end > start

\* validator.Struct(UpdateCampaignRequest): Status oneof; EndDate
\* omitempty,gtfield=StartDate.  An absent EndDate is not looked at; a
\* present EndDate is compared with the StartDate of the request, and the
\* comparison fails when that is absent.
UpdateValid(req) ==
    /\ req.status # <<>> => req.status[1] \in Statuses
    /\ req.end_date # <<>> =>
          /\ req.start_date # <<>>
          /\ req.end_date[1] > req.start_date[1]

\* existingCampaign with the fields present in the request written over it.
Overlay(row, req) ==
    [status |-> IF req.status # <<>> THEN req.status[1] ELSE row.status,
     start_date |-> IF req.start_date # <<>> THEN req.start_date[1]
                    ELSE row.start_date,
     end_date |-> IF req.end_date # <<>> THEN req.end_date[1]
                  ELSE row.end_date]

\* CampaignHandler.CreateCampaign: a request that fails validation is
\* answered 400 and stores nothing; a valid one stores a draft.
CreateCampaign(id, start, end) ==
    /\ id \notin DOMAIN campaigns
    /\ campaigns' =
          IF CreateValid(start, end)
          THEN campaigns @@ (id :> [status |-> "draft", start_date |-> start,
                                    end_date |-> end])
          ELSE campaigns
    /\ last' = NoStep
    /\ UNCHANGED <<clock, cancelled, tzName, pc, runAt, config, call,
                   resolverVars, crudVars>>

\* CampaignHandler.UpdateCampaign up to the overlay: validation, GetByID,
\* the fields of the request written over the copy read.
UpdateRead(id, req) ==
    /\ edit = NoEdit
    /\ id \in DOMAIN campaigns
    /\ UpdateValid(req)
    /\ edit' = [id |-> id, read |-> campaigns[id],
                existingCampaign |-> Overlay(campaigns[id], req),
                setsStatus |-> req.status # <<>>]
    /\ last' = NoStep
    /\ UNCHANGED <<clock, cancelled, tzName, campaigns, pc, runAt, config, call,
                   resolverVars>>

\* h.repo.Update(ctx, id, existingCampaign): every column of the row is
\* written from the copy; or the statement fails and nothing is written.
UpdateWrite ==
    /\ edit # NoEdit
    /\ \/ campaigns' = [campaigns EXCEPT ![edit.id] = edit.existingCampaign]
       \/ campaigns' = campaigns
    /\ edit' = NoEdit
    /\ last' = NoStep
    /\ UNCHANGED <<clock, cancelled, tzName, pc, runAt, config, call,
                   resolverVars>>

CrudInit ==
    /\ clock = 0
    /\ cancelled = FALSE
    /\ tzName = "UTC"
    /\ campaigns = NoCampaigns
    /\ pc = [l \in Loops |-> "loop"]
    /\ runAt = [l \in Loops |-> 0]
    /\ last = NoStep
    /\ config = DefaultConfig
    /\ call = NoCalls
    /\ edit = NoEdit
    /\ creatives = NoCreatives
    /\ resp = NoResponse

CrudNext ==
    \/ \E id \in CrudIds, start \in CrudDates, end \in CrudDates :
          CreateCampaign(id, start, end)
    \/ \E id \in CrudIds, req \in UpdateRequests : UpdateRead(id, req)
    \/ UpdateWrite
    \/ Next

CrudSpec == CrudInit /\ [][CrudNext]_vars

\* C24: in every state of the store, whatever CreateCampaign and
\* UpdateCampaign requests came before, every stored campaign has an
\* end_date that is not before its start_date.
C24_DateRange ==
    \A id \in DOMAIN campaigns :
        campaigns[id].end_date >= campaigns[id].start_date

\* C26: an UpdateCampaign request that does not set status, and that read
\* the campaign as scheduled before an Activate tick made it active, leaves
\* the campaign active when it finishes after the tick.
C26_NoLostTransition ==
    [][(/\ edit # NoEdit
        /\ edit' = NoEdit
        /\ ~edit.setsStatus
        /\ edit.read.status = scheduledStatus
        /\ campaigns[edit.id].status = "active")
       => campaigns'[edit.id].status = "active"]_vars

\* C25: a device request whose count query or list query fails is answered
\* with an error and carries no creative and no total; a request answered
\* with success carries every creative the query selects, never a part of
\* them.
C25_AllOrNothing ==
    (resp.op = "list" /\ resp.device # <<>>) =>
        LET failed ==
                \/ resp.fault # "none"
                \/ QueryFails(creatives, resp.device, resp.activeNow, resp.now)
        IN  /\ failed =>
                /\ resp.status = 500
                /\ resp.data = <<>>
                /\ resp.total = 0
            /\ resp.status = 200 =>
                /\ ~failed
                /\ Returned = QueryIds(creatives, resp.device, resp.activeNow,
                                       resp.now)
                /\ Len(resp.data) = Cardinality(Returned)

\* A list query failed on a device that has two creatives to show.
C25_Witness ==
    /\ resp.op = "list"
    /\ resp.fault = "list"
    /\ resp.status = 500
    /\ resp.data = <<>>
    /\ Cardinality(QueryIds(creatives, resp.device, resp.activeNow,
                            resp.now)) = 2

\* C27: a scheduled campaign whose start_date lies on a civil date before
\* today is left scheduled by every step; no Activate tick of today or of a
\* later day takes it, so a campaign whose start day passed without a
\* successful tick stays scheduled.
C27_NoCatchUp ==
    [][\A id \in CampaignIds :
          (/\ campaigns[id].status = scheduledStatus
           /\ StartDay(id) < CivilDate(clock, tzName))
          => campaigns'[id].status = scheduledStatus]_vars

\* An Activate tick succeeded on a day after the start day of a campaign that
\* is still scheduled.
C27_Witness ==
    /\ ActivatedOk
    /\ \E id \in CampaignIds :
          /\ campaigns[id].status = scheduledStatus
          /\ StartDay(id) < LastToday

(***************************************************************************)
(* Properties of catching up and of the ticks of one day                   *)
(***************************************************************************)
\* The civil dates the clock of the loops passes through.
LoopDays ==
    CivilDate(LoopStart, "America/New_York")..CivilDate(LoopEnd, "UTC")

\* Campaign id is active and ended before the current day.
ActiveEnded(id) ==
    /\ campaigns[id].status = activeStatus
    /\ CivilDate(campaigns[id].end_date, tzName) < CivilDate(clock, tzName)

\* The store has committed the statement of the completer's tick in flight.
CompleterCommitted == call["completer"].committed

\* C28: with the Complete ticks firing day after day, a campaign that is
\* active and ended before the current day is completed once a Complete
\* tick of that day or of a later day succeeds, however many ticks before
\* it failed or were missed.
C28_CompleteCatchesUp ==
    \A id \in CampaignIds, d \in LoopDays :
        [](/\ ActiveEnded(id)
           /\ CivilDate(clock, tzName) = d
           /\ ~CompleterCommitted
           /\ <>(/\ CompleterCommitted
                 /\ CivilDate(call["completer"].now, tzName) >= d)
           => <>(campaigns[id].status = completedStatus))

\* A Complete tick has completed a campaign that ended two days or more
\* before the tick's today.
C28_Witness ==
    /\ CompleterCommitted
    /\ call["completer"].rows > 0
    /\ \E id \in CampaignIds :
          /\ campaigns[id].status = completedStatus
          /\ CivilDate(campaigns[id].end_date, tzName) + 1
                < CivilDate(call["completer"].now, tzName)

\* The tick of loop l was submitted on the civil date of its computed fire
\* instant: the goroutine was not held up between its timer and its call.
Prompt(l) == CivilDate(call[l].now, tzName) = CivilDate(runAt[l], tzName)

\* Loop l is back at its head after a tick whose today was d.
TickedOn(l, d) ==
    /\ pc[l] = "loop"
    /\ Prompt(l)
    /\ CivilDate(call[l].now, tzName) = d

\* C29: two consecutive ticks of one loop never carry the same civil date
\* as today: once a tick of day d is over, however long its store call
\* took, every later tick of that loop carries a later day.
C29_OneTickPerDay ==
    \A l \in Loops, d \in LoopDays :
        [](TickedOn(l, d)
           => [](pc[l] = "call" /\ Prompt(l)
                 => CivilDate(call[l].now, tzName) > d))

(***************************************************************************)
(* Device requests next to the scheduler                                   *)
(*                                                                         *)
(* The creatives of the campaigns the scheduler moves through their        *)
(* lifecycle, listed for a device before and after the ticks.              *)
(***************************************************************************)
\* creatives.campaign_id
CampaignOf(id) == IF id = "k1" THEN "c1" ELSE "c2"

Saturday == WeekdayNames[7]

LifecycleCreativeRows ==
    {[devices |-> <<Kiosk1>>, selected_days |-> <<Saturday>>,
      time_slots |-> <<Slot0900_1700>>],
     [devices |-> <<LobbyAPadded, Kiosk1>>, selected_days |-> <<Saturday>>,
      time_slots |-> <<Slot0900_1700>>]}

\* Campaigns that start on the second day of the clock and end on it.
LifecycleCampaignRows ==
    {r \in CampaignRows :
        /\ r.status \in {"draft", "scheduled", "active"}
        /\ r.start_date = MinutesPerDay
        /\ CivilDate(r.end_date, "UTC") = 1}

LifecycleDevices == {Kiosk1, LobbyALower}
LifecycleParams == {"", "1"}

LifecycleInit ==
    /\ clock = 0
    /\ cancelled = FALSE
    /\ tzName = "UTC"
    /\ campaigns \in {t \in [CampaignIds -> LifecycleCampaignRows] :
                        /\ t["c1"].status # "draft"
                        /\ t["c2"].status = "draft"}
    /\ pc = [l \in Loops |-> "loop"]
    /\ runAt = [l \in Loops |-> 0]
    /\ last = NoStep
    /\ config = DefaultConfig
    /\ call = NoCalls
    /\ edit = NoEdit
    /\ creatives \in {t \in [CreativeIds -> LifecycleCreativeRows] :
                        t["k1"] # t["k2"]}
    /\ resp = NoResponse

LifecycleNext ==
    \/ \E device \in LifecycleDevices, p \in LifecycleParams :
          ListCreativesByDevice(device, p, "none")
    \/ ResponseSent
    \/ Next

LifecycleSpec == LifecycleInit /\ [][LifecycleNext]_vars

\* C30: the creatives a device request returns are those whose devices,
\* selected_days and time_slots select them for the device, the flag and the
\* instant of the request, whatever the status and the dates of the
\* campaigns they belong to and whatever ticks came before.
C30_IgnoresLifecycle ==
    Listed =>
        Returned =
            {id \in CreativeIds :
                RowEval(creatives[id], resp.device, resp.activeNow,
                        resp.now) = "true"}

\* A device request with the flag set and a successful Complete tick at one
\* instant: the creative of the campaign the tick completed and the creative
\* of a draft campaign are both returned.
C30_Witness ==
    /\ Listed
    /\ resp.activeNow
    /\ CompletedOk
    /\ last.now = resp.now
    /\ Cardinality(Returned) = 2
    /\ \E id \in Returned :
          /\ last.before[CampaignOf(id)].status = "active"
          /\ campaigns[CampaignOf(id)].status = completedStatus
    /\ \E id \in Returned : campaigns[CampaignOf(id)].status = "draft"

====
